---- MODULE Spec2Model ----
(***************************************************************************)
(* SwiftAttend (src/frontend/app.py): the attendance store (Event,         *)
(* Participant, Attendance rows) and the request handlers that read and    *)
(* write it: create_event, delete_event, register_for_event, api_checkin.  *)
(*                                                                         *)
(* Requests are served by concurrent workers (Flask's threaded server).    *)
(* A handler is a sequence of store round trips; each round trip is one    *)
(* atomic step of the model and the steps of different workers interleave. *)
(* Store semantics are those of the configured engine (line 19, SQLite     *)
(* through SQLAlchemy): the only declared uniqueness constraints are the   *)
(* primary keys and Attendance.participant_id (line 55); foreign keys are  *)
(* declared but SQLite does not enforce them unless asked to, and the      *)
(* program never asks.  Identifiers are uuid4 values (lines 26, 40),       *)
(* modelled as numbers drawn from a counter: never reused, never equal.    *)
(***************************************************************************)
EXTENDS Naturals, FiniteSets

\* ------------------------------------------------------------------ bounds
MaxEvents == 2
MaxParticipants == 2
\* Requests (register, delete, check-in) the workers take up in one run.
MaxRequests == 3

Workers == {"w1", "w2"}

\* Registration forms (request.form, lines 207-209); "" is an empty field.
\* The complete forms cover a match on the student id alone, on the e-mail
\* alone, on both and on neither; the others leave one field empty.
Forms ==
    {[name |-> "n1", student_id |-> "s1", email |-> "m1"],
     [name |-> "n1", student_id |-> "s1", email |-> "m2"],
     [name |-> "n1", student_id |-> "s2", email |-> "m1"],
     [name |-> "", student_id |-> "s1", email |-> "m1"],
     [name |-> "n1", student_id |-> "", email |-> "m1"],
     [name |-> "n1", student_id |-> "s1", email |-> ""]}

\* A missing or empty identifier in a request body.
NoId == 0
EventIds == 1..MaxEvents
ParticipantIds == 1..MaxParticipants

\* Check-in request bodies <<participant_id, event_id>> (lines 263-265): every
\* pair of identifiers, and the bodies with one or both missing.
CheckinBodies ==
    (ParticipantIds \X EventIds) \cup {<<NoId, 1>>, <<1, NoId>>, <<NoId, NoId>>}

VARIABLES
    events,        \* ids of the Event rows
    participants,  \* Participant rows
    attendances,   \* Attendance rows
    nextEvent,     \* number of Event ids generated so far
    nextPart,      \* number of Participant ids generated so far
    outbox,        \* registration e-mails handed to send_registration_email
    started,       \* number of requests the workers have taken up so far
    req            \* per worker: the request it serves and where it stands

vars == <<events, participants, attendances, nextEvent, nextPart, outbox, started, req>>

\* The rows of the three tables (lines 25-57) and the workers' records.
TypeOK ==
    /\ events \subseteq EventIds
    /\ nextEvent \in 0..MaxEvents
    /\ nextPart \in 0..MaxParticipants
    /\ \A p \in participants :
          /\ p.id \in 1..nextPart
          /\ p.event_id \in 1..nextEvent
          /\ p.name # "" /\ p.student_id # "" /\ p.email # ""
    /\ \A p, q \in participants : p.id = q.id => p = q
    /\ \A a \in attendances :
          /\ a.participant_id \in 1..nextPart
          /\ a.event_id \in 1..nextEvent
    /\ \A a, b \in attendances : a.id = b.id => a = b
    /\ \A m \in outbox : m.payload.id \in 1..nextPart
    /\ started \in 0..MaxRequests
    /\ \A w \in Workers :
          req[w].pc \in {"done", "reg_query", "reg_commit", "reg_notify",
                         "del_cascade", "del_commit", "chk_existing",
                         "live_query", "qr_event"}

\* ------------------------------------------------------------------ store

\* Event.query.get(event_id)
GetEvent(e) == IF e \in events THEN "Found" ELSE "NotFound"

NaturalKeyMatchesAnyEvent(e, s, m) ==
    {p \in participants : p.student_id = s \/ p.email = m}

NaturalKeyMatchesBoth(e, s, m) ==
    {p \in participants : p.event_id = e /\ (p.student_id = s /\ p.email = m)}

\* Participant.query.filter(event_id == e, (student_id == s) | (email == m))
NaturalKeyMatches(e, s, m) ==
    {p \in participants : p.event_id = e /\ (p.student_id = s \/ p.email = m)}

ParticipantOfAnyEvent(p, e) ==
    {x \in participants : x.id = p}

\* Participant.query.filter_by(id=p, event_id=e)
ParticipantOfEvent(p, e) ==
    {x \in participants : x.id = p /\ x.event_id = e}

RegistrationCount(e) == Cardinality({p \in participants : p.event_id = e})

\* Attendance.query.filter_by(event_id=e).count()
AttendanceCount(e) == Cardinality({a \in attendances : a.event_id = e})

\* ------------------------------------------------------------------ QR payloads

\* A payload text is base + prefix + identifier + suffix; the empty payload
\* stands for "none rendered".
NoPayload == [base |-> "", prefix |-> "", id |-> NoId, suffix |-> ""]

\* The URL rules of the routes (lines 157, 203, 244, 256).
RouteRule(endpoint) ==
    CASE endpoint = "register_for_event" ->
            [prefix |-> "/event/", suffix |-> "/register"]
      [] endpoint = "show_participant_qr" ->
            [prefix |-> "/participant/", suffix |-> "/qr"]
      [] endpoint = "event_qr_code" ->
            [prefix |-> "/admin/event/", suffix |-> "/qr_code"]
      [] endpoint = "checkin_scanner" ->
            [prefix |-> "/checkin/", suffix |-> ""]

\* url_for(endpoint, <id>, _external=True)
UrlFor(endpoint, id) ==
    [base |-> "base_url", prefix |-> RouteRule(endpoint).prefix, id |-> id,
     suffix |-> RouteRule(endpoint).suffix]

ParticipantQrPage(id) == UrlFor("show_participant_qr", id)

\* Lines 233 and 250: the data of a participant's code is the participant id.
ParticipantQrData(id) == [NoPayload EXCEPT !.id = id]

\* Line 161: the data of an event's code is the URL of its registration page.
EventQrData(e) == UrlFor("register_for_event", e)

\* ------------------------------------------------------------------ requests

Blank ==
    [op |-> "none", pc |-> "done", event_id |-> NoId, participant_id |-> NoId,
     name |-> "", student_id |-> "", email |-> "",
     loaded |-> [parts |-> {}, atts |-> {}],
     status |-> "none", check_in_time |-> 0, count |-> 0, payload |-> NoPayload]

Free(w) == req[w].pc = "done"

Finish(r, st) == [r EXCEPT !.pc = "done", !.status = st]

Init ==
    /\ events = {}
    /\ participants = {}
    /\ attendances = {}
    /\ nextEvent = 0
    /\ nextPart = 0
    /\ outbox = {}
    /\ req = [w \in Workers |-> Blank]
    /\ started = 0

\* create_event, POST: one insert and commit; the id is a fresh uuid4.
CreateEvent ==
    /\ nextEvent < MaxEvents
    /\ nextEvent' = nextEvent + 1
    /\ events' = events \cup {nextEvent + 1}
    /\ UNCHANGED <<started, participants, attendances, nextPart, outbox, req>>

\* ------------------------------------------------------------------ register_for_event

\* Registrations that may still insert a row: the id bound is reserved when
\* the request starts, so that no started request is cut short by the bound.
PendingInserts ==
    Cardinality({w \in Workers : req[w].pc \in {"reg_query", "reg_commit"}})

FormCompleteButEmail(f) == f.name # "" /\ f.student_id # ""

\* Line 212: all([name, student_id, email]).
FormComplete(f) == f.name # "" /\ f.student_id # "" /\ f.email # ""

\* Lines 205-214: resolve the event (get_or_404), then validate the form.
StartRegister(w, e, f) ==
    /\ Free(w)
    /\ started < MaxRequests
    /\ started' = started + 1
    /\ nextPart + PendingInserts < MaxParticipants
    /\ LET r == [Blank EXCEPT !.op = "register"]
       IN req' = [req EXCEPT ![w] =
            IF GetEvent(e) = "NotFound" THEN Finish(r, "NotFound")
            ELSE IF ~FormComplete(f) THEN Finish(r, "ValidationError")
            ELSE [r EXCEPT !.pc = "reg_query", !.event_id = e, !.name = f.name,
                           !.student_id = f.student_id, !.email = f.email]]
    /\ UNCHANGED <<events, participants, attendances, nextEvent, nextPart, outbox>>

\* Lines 216-225: the duplicate query; .first() returns any one matching row.
RegisterQuery(w) ==
    /\ req[w].pc = "reg_query"
    /\ LET r == req[w]
           found == NaturalKeyMatches(r.event_id, r.student_id, r.email)
       IN IF found = {}
          THEN req' = [req EXCEPT ![w].pc = "reg_commit"]
          ELSE \E x \in found :
                 req' = [req EXCEPT ![w] =
                    Finish([Blank EXCEPT !.op = "register", !.participant_id = x.id],
                           "AlreadyRegistered")]
    /\ UNCHANGED <<started, events, participants, attendances, nextEvent, nextPart, outbox>>

\* Lines 227-229: insert the Participant under a fresh uuid4 and commit. No
\* constraint of the schema (lines 39-45) covers student_id or email, and the
\* event_id foreign key is not enforced, so the insert always succeeds.
InsertParticipant(r) ==
    participants \cup
        {[id |-> nextPart + 1, event_id |-> r.event_id, name |-> r.name,
          student_id |-> r.student_id, email |-> r.email]}

RegisterCommit(w) ==
    /\ req[w].pc = "reg_commit"
    /\ participants' = InsertParticipant(req[w])
    /\ nextPart' = nextPart + 1
    /\ req' = [req EXCEPT ![w].pc = "reg_notify", ![w].participant_id = nextPart + 1]
    /\ UNCHANGED <<started, events, attendances, nextEvent, outbox>>

ParticipantsRolledBack(r, sent) ==
    IF sent THEN participants ELSE {p \in participants : p.id # r.participant_id}

\* The Participant rows after lines 231-240: the insert was committed at line
\* 229 and nothing after it writes to the store, whether or not the e-mail
\* went out.
ParticipantsAfterNotify(r, sent) == participants

\* Lines 231-240: after the commit the session's objects are expired, so
\* new_participant.id (line 233) and event.name (line 237) are re-read; a row
\* deleted meanwhile raises ObjectDeletedError and the request ends in a 500
\* before the e-mail is sent. The rendering and the send (lines 234-237) are
\* calls into collaborators that return or raise; a raise ends in a 500 too.
\* The payload of the code in the e-mail is the participant id.
RegisterNotify(w) ==
    /\ req[w].pc = "reg_notify"
    /\ \E delivered \in BOOLEAN :
         LET r == req[w]
             alive == /\ \E x \in participants : x.id = r.participant_id
                      /\ r.event_id \in events
             sent == alive /\ delivered
             done == [Blank EXCEPT !.op = "register",
                                   !.participant_id = r.participant_id]
         IN /\ outbox' = IF sent
                         THEN outbox \cup {[to |-> r.email,
                                            payload |-> ParticipantQrData(r.participant_id)]}
                         ELSE outbox
            /\ participants' = ParticipantsAfterNotify(r, sent)
            /\ req' = [req EXCEPT ![w] =
                  Finish(done, IF sent THEN "Registered" ELSE "InternalError")]
    /\ UNCHANGED <<started, events, attendances, nextEvent, nextPart>>

\* ------------------------------------------------------------------ delete_event

\* Line 151: resolve the event (get_or_404).
StartDelete(w, e) ==
    /\ Free(w)
    /\ started < MaxRequests
    /\ started' = started + 1
    /\ LET r == [Blank EXCEPT !.op = "delete"]
       IN req' = [req EXCEPT ![w] =
            IF GetEvent(e) = "NotFound" THEN Finish(r, "NotFound")
            ELSE [r EXCEPT !.pc = "del_cascade", !.event_id = e]]
    /\ UNCHANGED <<events, participants, attendances, nextEvent, nextPart, outbox>>

\* The rows the delete cascade of lines 33, 34 and 48 reaches from event e:
\* its participants, its attendances and the attendance of each participant.
CascadeRows(e) ==
    LET ps == {p \in participants : p.event_id = e}
    IN [parts |-> {p.id : p \in ps},
        atts |-> {a.id : a \in {a \in attendances :
                     a.event_id = e \/ \E p \in ps : a.participant_id = p.id}}]

\* Line 152: db.session.delete(event) walks the delete cascade and loads the
\* related rows that exist at this moment.
DeleteCascade(w) ==
    /\ req[w].pc = "del_cascade"
    /\ req' = [req EXCEPT ![w].pc = "del_commit",
                          ![w].loaded = CascadeRows(req[w].event_id)]
    /\ UNCHANGED <<started, events, participants, attendances, nextEvent, nextPart, outbox>>

\* Line 153: the commit deletes the loaded rows and the event row in one
\* transaction. A row that is already gone matches nothing (a warning only).
DeleteCommit(w) ==
    /\ req[w].pc = "del_commit"
    /\ LET r == req[w]
       IN /\ events' = events \ {r.event_id}
          /\ participants' = {p \in participants : p.id \notin r.loaded.parts}
          /\ attendances' = {a \in attendances : a.id \notin r.loaded.atts}
          /\ req' = [req EXCEPT ![w] =
                Finish([Blank EXCEPT !.op = "delete"], "Deleted")]
    /\ UNCHANGED <<started, nextEvent, nextPart, outbox>>

\* ------------------------------------------------------------------ api_checkin

MissingParticipantOnly(p, e) == p = NoId

\* Line 267: not participant_id or not event_id.
MissingIdentifier(p, e) == p = NoId \/ e = NoId

\* Lines 263-273: reject a missing identifier, then look the participant up by
\* id and event id together.
StartCheckin(w, p, e) ==
    /\ Free(w)
    /\ started < MaxRequests
    /\ started' = started + 1
    /\ LET r == [Blank EXCEPT !.op = "checkin", !.participant_id = p, !.event_id = e]
       IN req' = [req EXCEPT ![w] =
            IF MissingIdentifier(p, e) THEN Finish(r, "BadRequest")
            ELSE IF ParticipantOfEvent(p, e) = {} THEN Finish(r, "NotFound")
            ELSE [r EXCEPT !.pc = "chk_existing"]]
    /\ UNCHANGED <<events, participants, attendances, nextEvent, nextPart, outbox>>

\* Lines 275-292. Line 276 evaluates event.id, but api_checkin binds no name
\* `event` (its parameter from the request body is event_id) and the module
\* has no global of that name: the expression raises NameError before the
\* query is issued. Nothing is read or written and the request ends in a 500.
CheckinOutcomeUnguarded(r) ==
    LET ids == {a.id : a \in attendances}
        fresh == IF ids = {} THEN 1
                 ELSE 1 + CHOOSE i \in ids : \A j \in ids : j <= i
    IN [atts |-> attendances \cup
                   {[id |-> fresh, participant_id |-> r.participant_id,
                     event_id |-> r.event_id, check_in_time |-> fresh]},
        status |-> "Success", check_in_time |-> fresh]

CheckinOutcomeCommitThenFail(r) ==
    [atts |-> CheckinOutcomeUnguarded(r).atts, status |-> "InternalError",
     check_in_time |-> 0]

CheckinOutcome(r) ==
    [atts |-> attendances, status |-> "InternalError", check_in_time |-> 0]

CheckinExisting(w) ==
    /\ req[w].pc = "chk_existing"
    /\ LET out == CheckinOutcome(req[w])
       IN /\ attendances' = out.atts
          /\ req' = [req EXCEPT ![w].pc = "done", ![w].status = out.status,
                                ![w].check_in_time = out.check_in_time]
    /\ UNCHANGED <<started, events, participants, nextEvent, nextPart, outbox>>

\* ------------------------------------------------------------------ QR pages

\* Line 246: resolve the participant (get_or_404).
StartShowQr(w, p) ==
    /\ Free(w)
    /\ started < MaxRequests
    /\ started' = started + 1
    /\ LET r == [Blank EXCEPT !.op = "show_qr", !.participant_id = p]
       IN req' = [req EXCEPT ![w] =
            IF \E x \in participants : x.id = p
            THEN [r EXCEPT !.pc = "qr_event",
                           !.event_id = (CHOOSE x \in participants : x.id = p).event_id]
            ELSE Finish(r, "NotFound")]
    /\ UNCHANGED <<events, participants, attendances, nextEvent, nextPart, outbox>>

\* Lines 247-253: resolve the participant's event (get_or_404), then render
\* the participant's code.
ShowQrRender(w) ==
    /\ req[w].pc = "qr_event"
    /\ LET r == [Blank EXCEPT !.op = "show_qr",
                              !.participant_id = req[w].participant_id]
       IN req' = [req EXCEPT ![w] =
            IF GetEvent(req[w].event_id) = "NotFound" THEN Finish(r, "NotFound")
            ELSE Finish([r EXCEPT !.payload = ParticipantQrData(req[w].participant_id)],
                        "Qr")]
    /\ UNCHANGED <<started, events, participants, attendances, nextEvent, nextPart, outbox>>

\* Lines 157-163: resolve the event (get_or_404) and render its public code.
EventQrCode(w, e) ==
    /\ Free(w)
    /\ started < MaxRequests
    /\ started' = started + 1
    /\ LET r == [Blank EXCEPT !.op = "event_qr", !.event_id = e]
       IN req' = [req EXCEPT ![w] =
            IF GetEvent(e) = "NotFound" THEN Finish(r, "NotFound")
            ELSE Finish([r EXCEPT !.payload = EventQrData(e)], "Qr")]
    /\ UNCHANGED <<events, participants, attendances, nextEvent, nextPart, outbox>>

\* ------------------------------------------------------------------ live_attendance

\* Line 197: resolve the event (get_or_404).
StartLiveCount(w, e) ==
    /\ Free(w)
    /\ started < MaxRequests
    /\ started' = started + 1
    /\ LET r == [Blank EXCEPT !.op = "live_count", !.event_id = e]
       IN req' = [req EXCEPT ![w] =
            IF GetEvent(e) = "NotFound" THEN Finish(r, "NotFound")
            ELSE [r EXCEPT !.pc = "live_query"]]
    /\ UNCHANGED <<events, participants, attendances, nextEvent, nextPart, outbox>>

\* Lines 198-199: count the event's Attendance rows and answer the number.
LiveCountQuery(w) ==
    /\ req[w].pc = "live_query"
    /\ req' = [req EXCEPT ![w] =
          Finish([req[w] EXCEPT !.count = AttendanceCount(req[w].event_id)], "Count")]
    /\ UNCHANGED <<started, events, participants, attendances, nextEvent, nextPart, outbox>>

Next ==
    \/ CreateEvent
    \/ \E w \in Workers, e \in EventIds, f \in Forms : StartRegister(w, e, f)
    \/ \E w \in Workers : RegisterQuery(w)
    \/ \E w \in Workers : RegisterCommit(w)
    \/ \E w \in Workers : RegisterNotify(w)
    \/ \E w \in Workers, e \in EventIds : StartDelete(w, e)
    \/ \E w \in Workers : DeleteCascade(w)
    \/ \E w \in Workers : DeleteCommit(w)
    \/ \E w \in Workers, c \in CheckinBodies : StartCheckin(w, c[1], c[2])
    \/ \E w \in Workers : CheckinExisting(w)
    \/ \E w \in Workers, e \in EventIds : StartLiveCount(w, e)
    \/ \E w \in Workers : LiveCountQuery(w)
    \/ \E w \in Workers, p \in ParticipantIds : StartShowQr(w, p)
    \/ \E w \in Workers : ShowQrRender(w)
    \/ \E w \in Workers, e \in EventIds : EventQrCode(w, e)

Spec == Init /\ [][Next]_vars

\* ------------------------------------------------------------------ properties

\* A check-in request that got past the participant lookup of line 270.
PastLookup(r) ==
    /\ r.op = "checkin"
    /\ r.pc = "done"
    /\ r.status \notin {"BadRequest", "NotFound"}

\* C1: in every reachable state, under any interleaving of register,
\* check_in and delete_event requests, each Participant has at most one
\* Attendance row.
AtMostOneAttendance ==
    \A p \in participants :
        Cardinality({a \in attendances : a.participant_id = p.id}) <= 1

\* Two check-ins of the same registered participant have both run to their end.
TwoCheckinsServed ==
    \E w1, w2 \in Workers :
        /\ w1 # w2
        /\ PastLookup(req[w1]) /\ PastLookup(req[w2])
        /\ req[w1].participant_id = req[w2].participant_id
        /\ req[w1].event_id = req[w2].event_id
        /\ ParticipantOfEvent(req[w1].participant_id, req[w1].event_id) # {}

\* C2: when two check-in requests for the same Participant and its own event
\* have both found the participant, exactly one reports Success and the other
\* reports DuplicateCheckIn carrying the winner's check-in timestamp.
ConcurrentCheckinsOneSuccess ==
    \A w1, w2 \in Workers :
        ( /\ w1 # w2
          /\ PastLookup(req[w1]) /\ PastLookup(req[w2])
          /\ req[w1].participant_id = req[w2].participant_id
          /\ req[w1].event_id = req[w2].event_id )
        => \E win, lose \in {w1, w2} :
              /\ win # lose
              /\ req[win].status = "Success"
              /\ req[lose].status = "DuplicateCheckIn"
              /\ req[lose].check_in_time = req[win].check_in_time

\* C3: in every reachable state no two Participants of one Event share a
\* student identifier and no two share an e-mail address.
UniqueNaturalKey ==
    \A p, q \in participants :
        (p.id # q.id /\ p.event_id = q.event_id)
        => (p.student_id # q.student_id /\ p.email # q.email)

\* Worker w takes the last step of a check-in that found its participant.
CheckinEnds(w) ==
    /\ req[w].pc = "chk_existing"
    /\ req'[w].pc = "done"

AttendancesOf(atts, p) == {a \in atts : a.participant_id = p}

\* C4: a check-in of a registered Participant P of Event E that has no
\* Attendance returns Success, creates exactly one Attendance for P and
\* raises the attendance count of E by exactly 1.
FirstCheckinSucceeds ==
    [][\A w \in Workers :
         ( /\ CheckinEnds(w)
           /\ ParticipantOfEvent(req[w].participant_id, req[w].event_id) # {}
           /\ AttendancesOf(attendances, req[w].participant_id) = {} )
         => /\ req'[w].status = "Success"
            /\ Cardinality(AttendancesOf(attendances', req[w].participant_id)) = 1
            /\ Cardinality({a \in attendances' : a.event_id = req[w].event_id})
                 = AttendanceCount(req[w].event_id) + 1]_vars

\* C5: once a check-in of Participant P has been served, a further check-in
\* of P (P then has an Attendance) returns DuplicateCheckIn with the original
\* check-in timestamp and leaves the Attendance rows as they are.
RepeatCheckinReportsDuplicate ==
    [][\A w1, w2 \in Workers :
         ( /\ w1 # w2
           /\ PastLookup(req[w1])
           /\ CheckinEnds(w2)
           /\ req[w2].participant_id = req[w1].participant_id
           /\ req[w2].event_id = req[w1].event_id
           /\ ParticipantOfEvent(req[w2].participant_id, req[w2].event_id) # {} )
         => /\ req'[w2].status = "DuplicateCheckIn"
            /\ \E a \in AttendancesOf(attendances, req[w2].participant_id) :
                  req'[w2].check_in_time = a.check_in_time
            /\ attendances' = attendances]_vars

\* Worker w runs the duplicate query of a registration.
QueryRuns(w) ==
    /\ req[w].pc = "reg_query"
    /\ req'[w].pc # "reg_query"

\* C6: a register for Event E whose student identifier or e-mail equals that
\* of an existing Participant of E yields AlreadyRegistered with the id of
\* such a Participant and creates no Participant.
RegisterIdempotentByNaturalKey ==
    [][\A w \in Workers :
         ( /\ QueryRuns(w)
           /\ \E x \in participants :
                 /\ x.event_id = req[w].event_id
                 /\ (x.student_id = req[w].student_id \/ x.email = req[w].email) )
         => /\ req'[w].pc = "done"
            /\ req'[w].status = "AlreadyRegistered"
            /\ \E x \in participants :
                  /\ x.id = req'[w].participant_id
                  /\ x.event_id = req[w].event_id
                  /\ (x.student_id = req[w].student_id \/ x.email = req[w].email)
            /\ participants' = participants]_vars

\* A registration was answered AlreadyRegistered with the id of a Participant
\* that is in the store, which holds a single row.
AlreadyRegisteredServed ==
    \E w \in Workers :
        /\ req[w].op = "register"
        /\ req[w].pc = "done"
        /\ req[w].status = "AlreadyRegistered"
        /\ \E x \in participants : x.id = req[w].participant_id
        /\ Cardinality(participants) = 1

\* Event e was created and has been deleted (event ids are never reused).
Deleted(e) == e <= nextEvent /\ e \notin events

\* Worker w's step is the lookup of a new check-in with both identifiers.
CheckinStarts(w) ==
    /\ Free(w)
    /\ req'[w] # req[w]
    /\ req'[w].op = "checkin"
    /\ req'[w].participant_id # NoId
    /\ req'[w].event_id # NoId

\* C7: once delete_event(E) has completed, no Participant and no Attendance
\* references E, get_event(E) returns NotFound, and a check-in for E returns
\* NotFound.
DeletedEventLeavesNothing ==
    [][\A e \in EventIds :
         Deleted(e)
         => /\ \A p \in participants' : p.event_id # e
            /\ \A a \in attendances' : a.event_id # e
            /\ GetEvent(e) = "NotFound"
            /\ \A w \in Workers :
                  (CheckinStarts(w) /\ req'[w].event_id = e)
                  => req'[w].status = "NotFound"]_vars

\* C8: under every interleaving of delete_event with in-flight register and
\* check_in requests, no Participant and no Attendance refers to an Event
\* that does not exist, and no Attendance to a Participant that does not.
NoDanglingReference ==
    /\ \A p \in participants : p.event_id \in events
    /\ \A a \in attendances :
          /\ a.event_id \in events
          /\ \E p \in participants : p.id = a.participant_id

\* C9: a check-in with the identifier of an existing Participant and the id
\* of an Event other than the Participant's own returns NotFound and creates
\* no Attendance, whether or not that other event exists.
CrossEventCheckinNotFound ==
    [][\A w \in Workers :
         ( /\ CheckinStarts(w)
           /\ \E x \in participants :
                 x.id = req'[w].participant_id /\ x.event_id # req'[w].event_id )
         => /\ req'[w].pc = "done"
            /\ req'[w].status = "NotFound"
            /\ attendances' = attendances]_vars

\* A check-in of a stored Participant against another, existing Event has
\* been answered.
CrossEventCheckinServed ==
    \E w \in Workers :
        /\ req[w].op = "checkin"
        /\ req[w].pc = "done"
        /\ req[w].event_id \in events
        /\ \E x \in participants :
              /\ x.id = req[w].participant_id
              /\ x.event_id # req[w].event_id
              /\ x.event_id \in events

\* C10: every check-in request that supplies both identifiers ends with one
\* of Success, DuplicateCheckIn or NotFound.
CheckinResultClassified ==
    \A w \in Workers :
        ( /\ req[w].op = "checkin"
          /\ req[w].pc = "done"
          /\ req[w].participant_id # NoId
          /\ req[w].event_id # NoId )
        => req[w].status \in {"Success", "DuplicateCheckIn", "NotFound"}

\* Worker w's step takes up a check-in request.
CheckinArrives(w) ==
    /\ Free(w)
    /\ req'[w] # req[w]
    /\ req'[w].op = "checkin"

\* C11: a check-in request whose participant_id or event_id is missing or
\* empty is rejected as a client error before any lookup and leaves the
\* store unchanged.
MissingIdentifierRejected ==
    [][\A w \in Workers :
         ( /\ CheckinArrives(w)
           /\ (req'[w].participant_id = NoId \/ req'[w].event_id = NoId) )
         => /\ req'[w].pc = "done"
            /\ req'[w].status = "BadRequest"
            /\ UNCHANGED <<events, participants, attendances>>]_vars

\* A check-in naming a stored Participant but no event has been rejected.
CheckinWithoutEventRejected ==
    \E w \in Workers :
        /\ req[w].op = "checkin"
        /\ req[w].pc = "done"
        /\ req[w].status = "BadRequest"
        /\ req[w].event_id = NoId
        /\ \E x \in participants : x.id = req[w].participant_id

\* C12: register for an Event id that does not exist fails with NotFound,
\* whatever the form holds; register for an existing Event with an empty
\* name, student identifier or e-mail fails with ValidationError; in both
\* cases no Participant is created and no notification is sent.
RegisterRejectsBadInput ==
    [][\A w \in Workers, e \in EventIds, f \in Forms :
         StartRegister(w, e, f)
         => /\ (e \notin events) => req'[w].status = "NotFound"
            /\ (e \in events /\ (f.name = "" \/ f.student_id = "" \/ f.email = ""))
                 => req'[w].status = "ValidationError"
            /\ (e \notin events \/ f.name = "" \/ f.student_id = "" \/ f.email = "")
                 => /\ req'[w].pc = "done"
                    /\ UNCHANGED <<participants, nextPart, outbox>>]_vars

\* One registration was refused for its event, another for its form, and
\* no Participant and no e-mail exists.
BothRejectionsServed ==
    /\ \E w \in Workers :
          req[w].op = "register" /\ req[w].pc = "done" /\ req[w].status = "NotFound"
    /\ \E w \in Workers :
          req[w].op = "register" /\ req[w].pc = "done"
          /\ req[w].status = "ValidationError"
    /\ events # {}
    /\ participants = {}
    /\ outbox = {}

\* C15: live_count(E) for an existing Event E returns exactly the number of
\* Attendance rows whose event id is E when the count is taken, which equals
\* the number of Participants of E that are checked in and never exceeds the
\* number of Participants of E; for a non-existent event it returns NotFound.
LiveCountIsAttendanceCount ==
    [][\A w \in Workers :
         /\ ( /\ req[w].pc = "live_query"
              /\ req'[w].pc = "done" )
            => LET e == req[w].event_id
                   rows == {a \in attendances : a.event_id = e}
                   members == {p \in participants : p.event_id = e}
               IN /\ req'[w].status = "Count"
                  /\ req'[w].count = Cardinality(rows)
                  /\ req'[w].count = Cardinality(
                        {p \in members : \E a \in rows : a.participant_id = p.id})
                  /\ req'[w].count <= Cardinality(members)
         /\ \A e \in EventIds :
              (StartLiveCount(w, e) /\ e \notin events)
              => (req'[w].pc = "done" /\ req'[w].status = "NotFound")]_vars

\* The count of an event that has a Participant was answered, and the count
\* of an event that does not exist was refused.
LiveCountServed ==
    /\ \E w \in Workers :
          /\ req[w].op = "live_count" /\ req[w].pc = "done"
          /\ req[w].status = "Count"
          /\ \E p \in participants : p.event_id = req[w].event_id
    /\ \E w \in Workers :
          /\ req[w].op = "live_count" /\ req[w].pc = "done"
          /\ req[w].status = "NotFound"

\* Worker w takes the last step of a registration that inserted its row.
RegisterEnds(w) ==
    /\ req[w].pc = "reg_notify"
    /\ req'[w].pc = "done"

\* C16: a successful register commits the new Participant before the
\* notification is invoked, so a failure of the notification never rolls
\* back or removes the Participant.
NotificationNeverRollsBack ==
    [][/\ \A w \in Workers : RegisterEnds(w) => participants' = participants
       /\ \A m \in outbox' \ outbox :
            \E w \in Workers :
               /\ RegisterEnds(w)
               /\ m.payload.id = req[w].participant_id
               /\ \E p \in participants : p.id = req[w].participant_id]_vars

\* A registration ended in an error after its commit although its event and
\* its row are in place (the notification failed): the Participant is in the
\* store and no e-mail for it went out.
RegisteredDespiteFailedNotification ==
    \E w \in Workers :
        /\ req[w].op = "register"
        /\ req[w].pc = "done"
        /\ req[w].status = "InternalError"
        /\ \E p \in participants :
              p.id = req[w].participant_id /\ p.event_id \in events
        /\ \A m \in outbox : m.payload.id # req[w].participant_id
        /\ \A v \in Workers : req[v].op # "delete"

\* C17: the payload encoded for a participant's personal code is exactly
\* that Participant's bare identifier, in the registration e-mail and when
\* the code is shown again, and the payload encoded for an event's public
\* code is the registration URL <base_url>/event/<event_id>/register.
QrPayloadsAsSpecified ==
    [][/\ \A m \in outbox' \ outbox :
            \E w \in Workers :
               /\ RegisterEnds(w)
               /\ m.payload = [base |-> "", prefix |-> "", suffix |-> "",
                               id |-> req[w].participant_id]
       /\ \A w \in Workers :
            (req[w].pc = "qr_event" /\ req'[w].status = "Qr")
            => req'[w].payload = [base |-> "", prefix |-> "", suffix |-> "",
                                  id |-> req[w].participant_id]
       /\ \A w \in Workers, e \in EventIds :
            (EventQrCode(w, e) /\ e \in events)
            => /\ req'[w].status = "Qr"
               /\ req'[w].payload = [base |-> "base_url", prefix |-> "/event/",
                                     id |-> e, suffix |-> "/register"]]_vars

\* A participant's code went out by e-mail and was shown again, and an
\* event's public code was rendered.
QrCodesRendered ==
    /\ outbox # {}
    /\ \E w \in Workers :
          /\ req[w].op = "show_qr" /\ req[w].status = "Qr"
          /\ \E m \in outbox : m.payload.id = req[w].participant_id
    /\ \E w \in Workers : req[w].op = "event_qr" /\ req[w].status = "Qr"

\* Worker w's registration inserts its row.
CommitRuns(w) ==
    /\ req[w].pc = "reg_commit"
    /\ req'[w].pc = "reg_notify"

\* C19: duplicate detection is scoped to one Event: a register for Event E2
\* whose student identifier or e-mail match a Participant of another Event
\* and none of E2 goes on to insert, and the insert adds one Participant of
\* E2 under a fresh identifier and leaves every other Participant and every
\* Attendance as it is.
DuplicateCheckScopedToEvent ==
    [][\A w \in Workers :
         LET r == req[w]
             same(x) == x.student_id = r.student_id \/ x.email = r.email
         IN /\ ( /\ QueryRuns(w)
                 /\ \E x \in participants : x.event_id # r.event_id /\ same(x)
                 /\ \A x \in participants : x.event_id = r.event_id => ~same(x) )
               => req'[w].pc = "reg_commit"
            /\ CommitRuns(w)
               => /\ \E n \in participants' :
                       /\ n.id \notin 1..nextPart
                       /\ n.id = req'[w].participant_id
                       /\ n.event_id = r.event_id
                       /\ n.student_id = r.student_id /\ n.email = r.email
                       /\ participants' = participants \cup {n}
                  /\ attendances' = attendances]_vars

\* Two existing Events each hold a Participant with the same student
\* identifier and the same e-mail address.
SameKeyInTwoEvents ==
    \E p, q \in participants :
        /\ p.event_id # q.event_id
        /\ p.event_id \in events /\ q.event_id \in events
        /\ p.student_id = q.student_id /\ p.email = q.email
        /\ p.id # q.id

\* C20: an Attendance comes into being for Participant P only in the step in
\* which a check_in of P and P's event completes with Success; a freshly
\* registered Participant has none, and register, NotFound and
\* DuplicateCheckIn outcomes never create one.
AttendanceOnlyBySuccessfulCheckin ==
    [][/\ \A a \in attendances' \ attendances :
            \E w \in Workers :
               /\ CheckinEnds(w)
               /\ req'[w].status = "Success"
               /\ a.participant_id = req[w].participant_id
               /\ a.event_id = req[w].event_id
               /\ ParticipantOfEvent(a.participant_id, a.event_id) # {}
       /\ \A w \in Workers :
            CommitRuns(w)
            => AttendancesOf(attendances', req'[w].participant_id) = {}
       /\ \A w \in Workers :
            ( /\ req'[w] # req[w]
              /\ \/ req'[w].op = "register"
                 \/ req'[w].status \in {"NotFound", "DuplicateCheckIn"} )
            => attendances' \subseteq attendances]_vars

\* A Participant is registered, a check-in of it has run to its end and a
\* check-in under a wrong event ended NotFound.
RegisteredAndCheckinsServed ==
    \E w1, w2 \in Workers :
        /\ PastLookup(req[w1])
        /\ ParticipantOfEvent(req[w1].participant_id, req[w1].event_id) # {}
        /\ req[w2].op = "checkin" /\ req[w2].pc = "done"
        /\ req[w2].status = "NotFound"
        /\ req[w2].participant_id = req[w1].participant_id
====
